---------------------------- MODULE Spec2Model ----------------------------
(***************************************************************************)
(* A model of medihunter: the polling loop of hunt.py, the token lifecycle *)
(* of MedicoverSession, the token cache file and the browser login of      *)
(* medicover_browser_auth.py.                                              *)
(*                                                                         *)
(* Six specifications share the variables:                                 *)
(*   Spec        the polling loop of hunt.main                             *)
(*   SpecCalm    the polling loop while every call returns, with fairness  *)
(*   SpecSetup   main before its loop: the lookups of region, specialty    *)
(*               and doctor                                                *)
(*   SpecSession MedicoverSession: log_in, _ensure_token, the API calls    *)
(*   SpecCache   save_tokens / load_tokens on the file system, with crashes*)
(*   SpecLogin   login_and_capture_tokens with its response callback       *)
(***************************************************************************)
EXTENDS Integers, Sequences, FiniteSets, TLC

(***************************************************************************)
(* Bounds of the model.                                                    *)
(***************************************************************************)
MaxDays == 2
MaxCycles == 2
MaxItems == 1

(***************************************************************************)
(* Python values that reach the code as JSON: None, an int or a str.       *)
(***************************************************************************)
PyNone == [t |-> "none", i |-> 0, s |-> ""]
PyInt(n) == [t |-> "int", i |-> n, s |-> ""]
PyStr(x) == [t |-> "str", i |-> 0, s |-> x]

\* bool(v)
Truthy(v) ==
  CASE v.t = "int" -> v.i # 0
    [] v.t = "str" -> v.s # ""
    [] OTHER -> FALSE

\* str(v)
Str(v) ==
  CASE v.t = "int" -> ToString(v.i)
    [] v.t = "str" -> v.s
    [] OTHER -> "None"

\* str(v or "")
StrOrEmpty(v) == IF Truthy(v) THEN Str(v) ELSE ""

\* int(v): [ok |-> FALSE] stands for the TypeError / ValueError int() raises
IntOf(v) ==
  CASE v.t = "int" -> [ok |-> TRUE, n |-> v.i]
    [] v.t = "str" /\ v.s = "5" -> [ok |-> TRUE, n |-> 5]
    [] v.t = "str" /\ v.s = "9" -> [ok |-> TRUE, n |-> 9]
    [] OTHER -> [ok |-> FALSE, n |-> 0]

(***************************************************************************)
(* SlotRecords the portal may return.                                      *)
(***************************************************************************)
Sub(id, name) == [id |-> id, name |-> name]
Slot(date, clinic, doctor, spec) ==
  [appointmentDate |-> date, clinic |-> clinic, doctor |-> doctor, specialty |-> spec,
   isPhoneConsultation |-> FALSE]

ItemA == Slot(PyStr("D1T10"), Sub(PyInt(1), "A"), Sub(PyInt(9), "Dr X"), Sub(PyInt(30), "Uro"))
\* the same slot with other display names, as a phone consultation
ItemA2 ==
  [Slot(PyStr("D1T10"), Sub(PyInt(1), "a "), Sub(PyInt(9), "DR  X"), Sub(PyInt(30), "uro"))
     EXCEPT !.isPhoneConsultation = TRUE]
\* another doctor, id given as a string
ItemB == Slot(PyStr("D1T10"), Sub(PyInt(1), "A"), Sub(PyStr("5"), "Dr Y"), Sub(PyInt(30), "Uro"))
\* a record without a doctor
ItemN == Slot(PyStr("D1T10"), Sub(PyInt(1), "A"), Sub(PyNone, ""), Sub(PyInt(30), "Uro"))
\* another day, the doctor id given as a string
ItemC == Slot(PyStr("D2T08"), Sub(PyInt(1), "A"), Sub(PyStr("9"), "Dr X"), Sub(PyInt(30), "Uro"))

\* the slot of ItemN with the doctor id 0
ItemZ == Slot(PyStr("D1T10"), Sub(PyInt(1), "A"), Sub(PyInt(0), "Dr Z"), Sub(PyInt(30), "Uro"))

Items == {ItemA, ItemA2, ItemB, ItemN, ItemC, ItemZ}

\* resp.get("items", []) or [] of one successful slots search
Responses == UNION {[1..n -> Items] : n \in 0..MaxItems}

\* a fingerprint that takes the doctor's name in
slot_key_with_names(item) ==
  StrOrEmpty(item.appointmentDate) \o "|" \o StrOrEmpty(item.clinic.id) \o "|"
    \o StrOrEmpty(item.doctor.id) \o "|" \o item.doctor.name

\* hunt.slot_key
slot_key(item) ==
  StrOrEmpty(item.appointmentDate) \o "|" \o StrOrEmpty(item.clinic.id) \o "|"
    \o StrOrEmpty(item.doctor.id) \o "|" \o StrOrEmpty(item.specialty.id)

(***************************************************************************)
(* State of hunt.main.                                                     *)
(***************************************************************************)
VARIABLES
  hpc,        \* position of main: "resolve" (line 132), "doctor" (line 136),
              \* "search", "report", "sleep", "done", "failed" (an exception
              \* ended it), "exit" (SystemExit of a name not resolved)
  once,       \* args.once
  days,       \* args.days
  doctor_id,  \* doctor_id of main: PyNone or the id to filter on
  date_idx,   \* index of the date the for loop of the cycle is at
  cycle,      \* number of the running cycle, from 1
  seen,       \* the set seen
  new_items,  \* the list new_items of the running cycle
  out,        \* the batches printed so far, one per report
  dups,       \* how often a returned slot was already in seen (capped at 2)
  interval,   \* args.interval
  last_wait,  \* the seconds of the last time.sleep, 0 before the first
  calls,      \* the dates search_appointments was called with in the running cycle
  prev_calls, \* the same for the cycle before
  wanted,     \* fingerprints of the returned records whose doctor is the one asked for
  dropped,    \* whether the doctor filter has dropped a record
  alias_seen, \* whether a kept slot came back under other names and was not new
  merged,     \* whether a record was taken for a kept record of another slot
  page_size,  \* args.page_size
  held,       \* fingerprints of the records the portal held for the dates
              \* searched whose doctor is the one asked for
  search_failed  \* whether a call of search_appointments has raised

hvars == <<hpc, once, days, doctor_id, date_idx, cycle, seen, new_items, out, dups,
           interval, last_wait, calls, prev_calls, wanted, dropped, alias_seen, merged,
                 page_size, held, search_failed>>

\* State of MedicoverSession, the token endpoint and the cache file.
VARIABLES
  spc,               \* the process: "init" (constructed), "ready" (log_in returned),
                     \* "dead" (an exception ended it)
  now,               \* datetime.utcnow(), in seconds
  access_token,      \* self.access_token: 0 is None, else the token's id
  refresh_token,     \* self.refresh_token: 0 is None or "", else the token's id
  token_expires_at,  \* self.token_expires_at: [some |-> FALSE, ...] is None
  cache,             \* the file tokens.json of the account
  issued,            \* how many token responses the portal has issued
  srv_expiry,        \* the time the portal lets the held access token expire
  latest_rt,         \* the refresh token this process received last
  last_refresh,      \* the last refresh request sent
  last_call,         \* the filters / slots call made at this instant, if any
  login_runs,        \* how often login_and_capture_tokens was called
  runs,              \* how many processes were started
  log_in_run         \* what the log_in of this process did

svars == <<spc, now, access_token, refresh_token, token_expires_at, cache, issued,
           srv_expiry, latest_rt, last_refresh, last_call, login_runs, runs, log_in_run>>

\* State of save_tokens writing the cache file.
VARIABLES
  wpc,      \* save_tokens: "idle", "opened" (tmp truncated), "partly" (some text
            \* written), "written" (tmp complete); "crashed" once the process died
  wtokens,  \* the argument tokens of the running save_tokens
  tmp,      \* the file tokens.tmp beside tokens.json
  loaded    \* what load_tokens gave the process started last

cvars == <<wpc, wtokens, tmp, loaded>>

\* State of login_and_capture_tokens.
VARIABLES
  lpc,       \* where the login is: "start", "consent", "fill", "wait_pass",
             \* "waitA" (the wait loop of line 206), "evalB" (in page.evaluate of
             \* line 214), "gotoC" (in page.goto / wait of lines 301-302), "close",
             \* "returned", "failed", "saved" (log_in has written the cache)
  tokens,    \* the dict tokens: src "none" is the empty dict
  submits,   \* how often the form was submitted
  polls,     \* turns of the wait loop taken
  captures,  \* how often tokens was assigned a bundle
  pending,   \* the bodies of the token responses whose handler on_response is
             \* waiting in resp.json() (line 54)
  net_captures, \* how often on_response assigned tokens
  filled,    \* the fields of the form that were filled
  submitted, \* for each submit of the form, the fields filled at that time
  form,      \* the variant of the form: "unknown", "one_step" (the password
             \* field was there with the username field), "two_step"
  error      \* the exception that ended the login, "none" without one

lvars == <<lpc, tokens, submits, polls, captures, pending, net_captures,
           filled, submitted, form, error>>

\* State of main before its loop.
VARIABLES
  args,            \* args.region, args.spec, args.doctor, args.doctor_id
  region_id,       \* region_id of main, 0 before it is set
  spec_id,         \* spec_id of main, 0 before it is set
  resolutions,     \* the name lookups of the last step: what was looked for, in
                   \* which list, and the place of the entry taken (0: none)
  doctor_lookups   \* how often the doctors list was fetched to resolve a name

rvars == <<args, region_id, spec_id, resolutions, doctor_lookups>>

\* what the actions of one component leave alone
notHunt == <<svars, cvars, lvars, rvars>>
notSession == <<hvars, cvars, lvars, rvars>>
notLogin == <<hvars, svars, cvars, rvars>>
notSetup == <<svars, cvars, lvars, once, days, date_idx, cycle, seen, new_items, out, dups,
              interval, last_wait, calls, prev_calls, wanted, dropped, alias_seen, merged,
                 page_size, held, search_failed>>
notCache == <<lvars, hvars, rvars, spc, now, access_token, refresh_token, token_expires_at, issued,
              srv_expiry, latest_rt, last_refresh, last_call, login_runs, runs, log_in_run>>

\* range(max(1, days)) of iter_dates
NDates == IF days > 1 THEN days ELSE 1

\* a doctor filter that compares the ids as they are
PassesStrictFilter(did, it) ==
  IF Truthy(did) THEN it.doctor.id = did ELSE TRUE

\* lines 181-187: whether the doctor filter lets the record through
PassesDoctorFilter(did, it) ==
  IF Truthy(did)
  THEN LET a == IntOf(it.doctor.id)
           b == IntOf(did)
       IN a.ok /\ b.ok /\ a.n = b.n
  ELSE TRUE

\* the body of "for it in items", without the test "k not in seen"
RECURSIVE CollectAlways(_, _, _, _)
CollectAlways(did, sn, nw, items) ==
  IF items = <<>> THEN [seen |-> sn, new_items |-> nw]
  ELSE IF ~PassesDoctorFilter(did, Head(items))
       THEN CollectAlways(did, sn, nw, Tail(items))
       ELSE CollectAlways(did, sn \cup {slot_key(Head(items))},
                          Append(nw, Head(items)), Tail(items))

\* a loop body that keeps in seen only the fingerprints of the last response
CollectPruning(did, sn, nw, items) ==
  LET r == CollectAlways(did, {}, <<>>, items)
  IN [seen |-> r.seen,
      new_items |-> nw \o SelectSeq(r.new_items, LAMBDA it : slot_key(it) \notin sn)]

\* the body of "for it in items": doctor filter, then dedupe against seen
RECURSIVE Collect(_, _, _, _)
Collect(did, sn, nw, items) ==
  IF items = <<>> THEN [seen |-> sn, new_items |-> nw]
  ELSE IF ~PassesDoctorFilter(did, Head(items))
       THEN Collect(did, sn, nw, Tail(items))
       ELSE LET k == slot_key(Head(items)) IN
            IF k \notin sn
            THEN Collect(did, sn \cup {k}, Append(nw, Head(items)), Tail(items))
            ELSE Collect(did, sn, nw, Tail(items))

\* how many records of items pass the filter and are already in seen
RECURSIVE CountSeen(_, _, _)
CountSeen(did, sn, items) ==
  IF items = <<>> THEN 0
  ELSE IF ~PassesDoctorFilter(did, Head(items))
       THEN CountSeen(did, sn, Tail(items))
       ELSE LET k == slot_key(Head(items)) IN
            (IF k \in sn THEN 1 ELSE 0) + CountSeen(did, sn \cup {k}, Tail(items))

Min(a, b) == IF a < b THEN a ELSE b

\* the records of all printed batches, in the order printed
RECURSIVE Flatten(_)
Flatten(batches) ==
  IF batches = <<>> THEN <<>> ELSE Head(batches) \o Flatten(Tail(batches))

\* args.start as a day number: strptime / strftime of iter_dates go from the
\* ISO date to the day and back
StartDate == 0

\* iter_dates with the dates counted from the day after start
iter_dates_from_next_day(start_iso, d) ==
  [i \in 1..(IF d > 1 THEN d ELSE 1) |-> start_iso + i]

\* hunt.iter_dates: start + timedelta(days=i) for i in range(max(1, days))
iter_dates(start_iso, d) ==
  [i \in 1..(IF d > 1 THEN d ELSE 1) |-> start_iso + (i - 1)]

\* the floor of the polling interval (line 211) and the default of --interval
MinWait == 5
DefaultInterval == 60
MaxInterval == 6

\* values of --interval
Intervals == {-1, 0, 1} \cup (MinWait..MaxInterval)

\* a sleep of the configured interval
sleep_as_configured(i) == i

\* the argument of time.sleep, line 211: max(5, int(args.interval)); argparse
\* made args.interval an int
sleep_secs(i) == IF i > MinWait THEN i ELSE MinWait

\* v is the number n: the integer itself or its decimal string
SameNumber(v, n) == v = PyInt(n) \/ v = PyStr(ToString(n))

\* the record is one the configured doctor filter asks for
Wanted(did, it) == did = PyNone \/ SameNumber(it.doctor.id, did.i)

\* the record names the same bookable slot as another, but is not that record
AliasOf(it, other) == it # other /\ slot_key(it) = slot_key(other)

\* the record is of another slot than other (one of date, clinic id, doctor id
\* and specialty id differs) and has its fingerprint
MergedWith(it, other) ==
  /\ \/ it.appointmentDate # other.appointmentDate
     \/ it.clinic.id # other.clinic.id
     \/ it.doctor.id # other.doctor.id
     \/ it.specialty.id # other.specialty.id
  /\ slot_key(it) = slot_key(other)

\* the default of --page-size, and the page size search_appointments takes
\* when it is given none (or 0)
DefaultPageSize == 500
FallbackPageSize == 5000

\* values of --page-size
PageSizes == {0, 1}

\* line 334 of medicover_session.py: int(kwargs.get("page_size") or 5000)
search_page_size(ps) == IF ps # 0 THEN ps ELSE FallbackPageSize

\* the records the portal may hold for one date: as many as a response of the
\* model carries, and one more than a page where the page is shorter
Holdings(ps) ==
  IF search_page_size(ps) > MaxItems THEN Responses
  ELSE UNION {[1..n -> Items] : n \in 0..(search_page_size(ps) + 1)}

\* the items of the response to Page=1, PageSize=n (lines 333-345 of
\* medicover_session.py: the page is never another than the first)
first_page(all, n) == SubSeq(all, 1, Min(n, Len(all)))

\* main as the loop starts.  Runs over several cycles are taken with a doctor
\* filter or over one day, the interval is varied on runs of one day without
\* doctor filter, the page size on single runs of one day.
HuntInit ==
  /\ hpc = "search"
  /\ \/ /\ interval = DefaultInterval
        /\ once \in BOOLEAN
        /\ days \in 0..MaxDays
        /\ doctor_id = PyInt(9)
        /\ page_size = DefaultPageSize
     \/ /\ interval = DefaultInterval
        /\ once = TRUE
        /\ days \in 0..MaxDays
        /\ doctor_id = PyNone
        /\ page_size = DefaultPageSize
     \/ /\ interval \in Intervals \cup {DefaultInterval}
        /\ once = FALSE
        /\ days = 1
        /\ doctor_id = PyNone
        /\ page_size = DefaultPageSize
     \/ /\ interval = DefaultInterval
        /\ once = TRUE
        /\ days = 1
        /\ doctor_id = PyNone
        /\ page_size \in PageSizes
  /\ date_idx = 0
  /\ cycle = 1
  /\ seen = {}
  /\ new_items = <<>>
  /\ out = <<>>
  /\ dups = 0
  /\ last_wait = 0
  /\ calls = <<>>
  /\ prev_calls = <<>>
  /\ wanted = {}
  /\ dropped = FALSE
  /\ alias_seen = FALSE
  /\ merged = FALSE
  /\ held = {}
  /\ search_failed = FALSE

\* one iteration of "for date_iso in iter_dates(...)": the search returns items
SearchOk ==
  /\ hpc = "search"
  /\ \E all \in Holdings(page_size) :
       LET items == first_page(all, search_page_size(page_size))
           r == Collect(doctor_id, seen, new_items, items)
           passed == {i \in 1..Len(items) : PassesDoctorFilter(doctor_id, items[i])}
           kept == Flatten(out) \o new_items'
       IN
       /\ seen' = r.seen
       /\ new_items' = r.new_items
       /\ dups' = Min(2, dups + CountSeen(doctor_id, seen, items))
       /\ wanted' = wanted \cup {slot_key(items[i]) :
                                  i \in {j \in 1..Len(items) : Wanted(doctor_id, items[j])}}
       /\ dropped' = (dropped \/ passed # 1..Len(items))
       /\ alias_seen' = (alias_seen \/ \E i \in passed, j \in 1..Len(kept) :
                                          AliasOf(items[i], kept[j]))
       /\ merged' = (merged \/ \E i \in passed, j \in 1..Len(kept) :
                                  MergedWith(items[i], kept[j]))
       /\ held' = held \cup {slot_key(all[i]) :
                              i \in {j \in 1..Len(all) : Wanted(doctor_id, all[j])}}
  /\ date_idx' = date_idx + 1
  /\ calls' = Append(calls, iter_dates(StartDate, days)[date_idx + 1])
  /\ hpc' = IF date_idx + 1 = NDates THEN "report" ELSE "search"
  /\ UNCHANGED <<once, days, doctor_id, cycle, out, interval, last_wait, prev_calls,
                 page_size, search_failed>>
  /\ UNCHANGED notHunt

\* a main that catches what the statement at pc raises and runs it again
caught_and_retried(pc) == pc

\* main has no try: what the statement at pc raises leaves main, the process
\* ends with the traceback and a non-zero exit status
uncaught(pc) == "failed"

\* search_appointments raises (refresh failed, or raise_for_status): main ends
SearchFails ==
  /\ hpc = "search"
  /\ hpc' = uncaught(hpc)
  /\ search_failed' = TRUE
  /\ calls' = Append(calls, iter_dates(StartDate, days)[date_idx + 1])
  /\ UNCHANGED <<once, days, doctor_id, date_idx, cycle, seen, new_items, out, dups,
                 interval, last_wait, prev_calls, wanted, dropped, alias_seen, merged,
                 page_size, held>>
  /\ UNCHANGED notHunt

\* a report that is printed also when it is empty
print_always(batches, nw) == Append(batches, nw)

\* lines 194-206: "if new_items: print..."
print_new(batches, nw) == IF nw # <<>> THEN Append(batches, nw) ELSE batches

\* a main that returns after its first cycle whatever --once is
return_always(o) == "done"

\* lines 208-211: "if args.once: return 0", else on to time.sleep
after_report(o) == IF o THEN "done" ELSE "sleep"

\* "if new_items: print...", then "if args.once: return 0"
Report ==
  /\ hpc = "report"
  /\ out' = print_new(out, new_items)
  /\ hpc' = after_report(once)
  /\ UNCHANGED <<once, days, doctor_id, date_idx, cycle, seen, new_items, dups,
                 interval, last_wait, calls, prev_calls, wanted, dropped, alias_seen, merged,
                 page_size, held, search_failed>>
  /\ UNCHANGED notHunt

\* time.sleep(...), then the next turn of "while True"
Sleep ==
  /\ hpc = "sleep"
  /\ cycle < MaxCycles
  /\ cycle' = cycle + 1
  /\ new_items' = <<>>
  /\ date_idx' = 0
  /\ last_wait' = sleep_secs(interval)
  /\ prev_calls' = calls
  /\ calls' = <<>>
  /\ hpc' = "search"
  /\ UNCHANGED <<once, days, doctor_id, seen, out, dups, interval, wanted, dropped,
                 alias_seen, merged, page_size, held, search_failed>>
  /\ UNCHANGED notHunt

HuntNext == SearchOk \/ SearchFails \/ Report \/ Sleep

\* the loop while every call returns
CalmNext == SearchOk \/ Report \/ Sleep

(***************************************************************************)
(* main before its loop: resolve_region_and_spec and the doctor selection. *)
(* Names are sequences of characters.                                      *)
(***************************************************************************)
MaxEntries == 2

\* str.lower of one character
lower(c) ==
  CASE c = "A" -> "a"
    [] c = "B" -> "b"
    [] OTHER -> c

Lower(str) == [i \in 1..Len(str) |-> lower(str[i])]

\* str.strip
RECURSIVE LStrip(_)
LStrip(str) ==
  IF str # <<>> /\ Head(str) = " " THEN LStrip(Tail(str)) ELSE str

RECURSIVE RStrip(_)
RStrip(str) ==
  IF str # <<>> /\ str[Len(str)] = " " THEN RStrip(SubSeq(str, 1, Len(str) - 1)) ELSE str

Strip(str) == RStrip(LStrip(str))

\* str.split(): the words between runs of whitespace; cur is the word begun
RECURSIVE Split(_, _)
Split(str, cur) ==
  IF str = <<>> THEN (IF cur = <<>> THEN <<>> ELSE <<cur>>)
  ELSE IF Head(str) = " "
       THEN (IF cur = <<>> THEN <<>> ELSE <<cur>>) \o Split(Tail(str), <<>>)
       ELSE Split(Tail(str), Append(cur, Head(str)))

\* " ".join(words)
RECURSIVE Join(_)
Join(words) ==
  IF words = <<>> THEN <<>>
  ELSE IF Len(words) = 1 THEN words[1]
       ELSE words[1] \o <<" ">> \o Join(Tail(words))

\* hunt._norm
norm(str) == Join(Split(Lower(Strip(str)), <<>>))

\* needle in hay
Contains(hay, needle) ==
  \E i \in 0..(Len(hay) - Len(needle)) : SubSeq(hay, i + 1, i + Len(needle)) = needle

\* names given on the command line: "A  b " and "b"
Names == {<<"A", " ", " ", "b", " ">>, <<"b">>}

\* no --doctor (None; an empty name is falsy as well)
NoName == <<>>

\* display names of the portal's entries: "a b", " A B", "a bb", "ab"
Values == {<<"a", " ", "b">>, <<" ", "A", " ", "B">>, <<"a", " ", "b", "b">>, <<"a", "b">>}

\* the lists regions / specialties / doctors of a filters response: the entry
\* at place i has the id i
EntryLists ==
  UNION {{[i \in 1..n |-> [id |-> i, value |-> vs[i]]] : vs \in [1..n -> Values]} :
           n \in 0..MaxEntries}

\* the lists of at most one entry
ShortLists == {l \in EntryLists : Len(l) <= 1}

\* the lists regions and specialties of one filters response: every pair of
\* lists of which one is short
RegionSpecLists ==
  {p \in EntryLists \X EntryLists : p[1] \in ShortLists \/ p[2] \in ShortLists}

\* the first loop (lines 71-74): the place of the first entry whose name
\* equals the name looked for, 0 when the loop ends without break
RECURSIVE first_exact(_, _, _)
first_exact(entries, name, i) ==
  IF i > Len(entries) THEN 0
  ELSE IF norm(entries[i].value) = norm(name) THEN i
       ELSE first_exact(entries, name, i + 1)

\* the second loop (lines 77-80): the place of the first entry whose name
\* contains the name looked for
RECURSIVE first_partial(_, _, _)
first_partial(entries, name, i) ==
  IF i > Len(entries) THEN 0
  ELSE IF Contains(norm(entries[i].value), norm(name)) THEN i
       ELSE first_partial(entries, name, i + 1)

\* a lookup that takes the first entry containing the name
resolve_first_containing(entries, name) == first_partial(entries, name, 1)

\* lines 70-80 (and 82-91, 146-155): the place of the target, 0 for None
resolve(entries, name) ==
  LET t == first_exact(entries, name, 1) IN
  IF t # 0 THEN t ELSE first_partial(entries, name, 1)

\* main going on whatever the lookup gave
go_on(target, next) == next

\* "if not target: raise SystemExit(...)"
exit_unless(target, next) == IF target = 0 THEN "exit" ELSE next

Lookup(kind, name, entries) ==
  [kind |-> kind, name |-> name, entries |-> entries, target |-> resolve(entries, name)]

\* the id of the entry at place t, 0 for no entry
IdAt(entries, t) == IF t = 0 THEN 0 ELSE entries[t].id

\* the command line
ArgSets ==
  [region : Names, spec : Names, doctor : {NoName} \cup Names,
   doctor_id : {PyNone, PyInt(0), PyInt(9)}]

\* main at line 132, after log_in
SetupInit ==
  /\ hpc = "resolve"
  /\ args \in ArgSets
  /\ region_id = 0
  /\ spec_id = 0
  /\ resolutions = <<>>
  /\ doctor_lookups = 0
  /\ once = FALSE
  /\ days = 1
  /\ doctor_id = PyNone
  /\ date_idx = 0
  /\ cycle = 1
  /\ seen = {}
  /\ new_items = <<>>
  /\ out = <<>>
  /\ dups = 0
  /\ interval = DefaultInterval
  /\ last_wait = 0
  /\ calls = <<>>
  /\ prev_calls = <<>>
  /\ wanted = {}
  /\ dropped = FALSE
  /\ alias_seen = FALSE
  /\ merged = FALSE
  /\ page_size = DefaultPageSize
  /\ held = {}
  /\ search_failed = FALSE

\* main at its loop: the doctor filter is the --doctor-id given
SetupDone ==
  /\ args = [region |-> <<"b">>, spec |-> <<"b">>, doctor |-> NoName,
             doctor_id |-> doctor_id]
  /\ region_id = 1
  /\ spec_id = 1
  /\ resolutions = <<>>
  /\ doctor_lookups = 0

\* line 132, resolve_region_and_spec: the filters call (which may raise), the
\* two lookups, SystemExit when one of them found nothing
ResolveRegionAndSpec ==
  /\ hpc = "resolve"
  /\ \E ok \in BOOLEAN, data \in RegionSpecLists :
       IF ok
       THEN /\ resolutions' = <<Lookup("region", args.region, data[1]),
                                Lookup("specialty", args.spec, data[2])>>
            /\ LET target_region == resolutions'[1].target
                   target_spec == resolutions'[2].target
               IN /\ hpc' = exit_unless(target_region, exit_unless(target_spec, "doctor"))
                  /\ region_id' = IF hpc' = "doctor" THEN IdAt(data[1], target_region)
                                  ELSE region_id
                  /\ spec_id' = IF hpc' = "doctor" THEN IdAt(data[2], target_spec)
                                ELSE spec_id
       ELSE /\ hpc' = "failed"
            /\ UNCHANGED <<resolutions, region_id, spec_id>>
  /\ UNCHANGED <<args, doctor_id, doctor_lookups>>
  /\ UNCHANGED notSetup

\* lines 136-160: the doctor id given, or the doctor name looked up in the
\* doctors list of a second filters call, or no doctor filter
ResolveDoctor ==
  /\ hpc = "doctor"
  /\ IF Truthy(args.doctor_id)
     THEN /\ doctor_id' = args.doctor_id
          /\ resolutions' = <<>>
          /\ hpc' = "search"
          /\ UNCHANGED doctor_lookups
     ELSE IF args.doctor # NoName
     THEN /\ doctor_lookups' = doctor_lookups + 1
          /\ \E ok \in BOOLEAN, doctors \in EntryLists :
               IF ok
               THEN /\ resolutions' = <<Lookup("doctor", args.doctor, doctors)>>
                    /\ LET target == resolutions'[1].target IN
                       /\ hpc' = exit_unless(target, "search")
                       /\ doctor_id' = IF target # 0 THEN PyInt(IdAt(doctors, target))
                                       ELSE doctor_id
               ELSE /\ hpc' = "failed"
                    /\ resolutions' = <<>>
                    /\ UNCHANGED doctor_id
     ELSE /\ resolutions' = <<>>
          /\ hpc' = "search"
          /\ UNCHANGED <<doctor_id, doctor_lookups>>
  /\ UNCHANGED <<args, region_id, spec_id>>
  /\ UNCHANGED notSetup

SetupNext == ResolveRegionAndSpec \/ ResolveDoctor

(***************************************************************************)
(* MedicoverSession: the token state of one process, the token endpoint    *)
(* and the token cache file of the account.                                *)
(***************************************************************************)
\* the 10 seconds subtracted from expires_in
SafetyMargin == 10
MaxLife == 12
MaxTime == 12
MaxTokens == 3
MaxRuns == 2

\* lifetimes (seconds) the token endpoint gives an access token
Lifetimes == {SafetyMargin + 1, MaxLife}

NoExpiry == [some |-> FALSE, t |-> 0]
ExpiryAt(t) == [some |-> TRUE, t |-> t]

\* a token response / a captured bundle: 0 stands for a missing or empty field
Bundle(at, rt, ei) == [access_token |-> at, refresh_token |-> rt, expires_in |-> ei]
NoBundle == Bundle(0, 0, 0)

\* contents of tokens.json
FileAbsent == [kind |-> "absent", bundle |-> NoBundle]
FileGarbage == [kind |-> "garbage", bundle |-> NoBundle]
FileJson(b) == [kind |-> "json", bundle |-> b]

\* save_tokens, run to its end: the file holds json.dumps(tokens)
save_tokens(file, bundle) == FileJson(bundle)

\* load_tokens: None for a missing file, json.loads of its text otherwise
\* (which raises on text that is not JSON)
load_tokens(file) ==
  CASE file.kind = "absent" -> [raised |-> FALSE, found |-> FALSE, tokens |-> NoBundle]
    [] file.kind = "json" -> [raised |-> FALSE, found |-> TRUE, tokens |-> file.bundle]
    [] OTHER -> [raised |-> TRUE, found |-> FALSE, tokens |-> NoBundle]

\* the token fields of self
Sess == [access_token |-> access_token, refresh_token |-> refresh_token,
         token_expires_at |-> token_expires_at]

\* an _ensure_token that takes no token for valid
TokenNeverValid(st, t) == FALSE

\* the test of _ensure_token (line 264)
TokenValid(st, t) ==
  st.access_token # 0 /\ st.token_expires_at.some /\ t < st.token_expires_at.t

\* lines 258-260 and 187-189: "if expires_in: self.token_expires_at = ..."
NewExpiry(st, tok, t) ==
  IF tok.expires_in # 0 THEN ExpiryAt(t + tok.expires_in - SafetyMargin)
  ELSE st.token_expires_at

\* _refresh_access_token that keeps the refresh token it holds
RefreshedKeepingOld(st, tok, t) ==
  [access_token |-> tok.access_token,
   refresh_token |-> st.refresh_token,
   token_expires_at |-> NewExpiry(st, tok, t)]

\* _refresh_access_token, lines 254-260: self after a successful response tok
Refreshed(st, tok, t) ==
  [access_token |-> tok.access_token,
   refresh_token |-> IF tok.refresh_token # 0 THEN tok.refresh_token ELSE st.refresh_token,
   token_expires_at |-> NewExpiry(st, tok, t)]

\* log_in, lines 185-189: self after login_and_capture_tokens returned tokens
LoggedIn(st, tok, t) ==
  [access_token |-> tok.access_token,
   refresh_token |-> tok.refresh_token,
   token_expires_at |-> NewExpiry(st, tok, t)]

\* what the token endpoint answers to a refresh request: an error, or token id
\* with or without a rotated refresh token, with or without expires_in
RefreshAnswers(id) ==
  {[ok |-> FALSE, life |-> 0, tok |-> NoBundle]} \cup
  {[ok |-> TRUE, life |-> l, tok |-> Bundle(id, r, IF d THEN l ELSE 0)] :
     l \in Lifetimes, r \in {0, id}, d \in BOOLEAN}

\* what login_and_capture_tokens gives: an exception, a full bundle (network
\* intercept, storage), or a degraded one (storage without refresh token and
\* maybe without expires_in, header sniff)
LoginResults(id) ==
  {[ok |-> FALSE, life |-> 0, tok |-> NoBundle]} \cup
  {[ok |-> TRUE, life |-> l, tok |-> Bundle(id, r, IF d THEN l ELSE 0)] :
     l \in Lifetimes, r \in {0, id}, d \in BOOLEAN}

NoRefresh == [sent |-> 0, latest |-> 0, prev |-> 0, ok |-> FALSE]
NoCall == [kind |-> "none", remaining |-> 0, valid |-> FALSE, had_rt |-> FALSE,
           refresh |-> "none", sent |-> FALSE, status |-> 0, result |-> "none"]

\* the status codes of the final response to a request (requests follows the
\* redirects of a GET): success, or an error
StatusCodes == {200, 401}

\* a call that takes every response as it is
raise_for_status_never(status) == FALSE

\* resp.raise_for_status(): raises HTTPError, which names the status and the
\* url, for a status from 400 to 599
raise_for_status(status) == status >= 400 /\ status < 600

\* log_in not yet run: cached is "a cached refresh token was tried" (line 169),
\* refresh / profile / login are "none", "ok" or "failed", attempts counts the
\* calls of login_and_capture_tokens
NoLogIn == [cached |-> FALSE, refresh |-> "none", profile |-> "none",
            login |-> "none", attempts |-> 0]

Outcome(ok) == IF ok THEN "ok" ELSE "failed"

\* log_in that goes on after a failed interactive login
log_in_end_swallowed(lg_ok, me_ok) == "ready"

\* lines 184-198: log_in returns when login_and_capture_tokens returned and
\* the profile request succeeded; else the exception leaves log_in and main
log_in_end(lg_ok, me_ok) == IF lg_ok /\ me_ok THEN "ready" ELSE "dead"

SessionInit ==
  /\ spc = "init"
  /\ now = 0
  /\ access_token = 0
  /\ refresh_token = 0
  /\ token_expires_at = NoExpiry
  /\ cache \in {FileAbsent, FileGarbage}
  /\ issued = 0
  /\ srv_expiry = 0
  /\ latest_rt = 0
  /\ last_refresh = NoRefresh
  /\ last_call = NoCall
  /\ login_runs = 0
  /\ runs = 1
  /\ log_in_run = NoLogIn

\* the record of a refresh request carrying rt
RefreshSent(rt, ok) == [sent |-> rt, latest |-> latest_rt, prev |-> last_refresh.sent, ok |-> ok]

\* log_in is called once, on a new MedicoverSession (hunt.py:129-130), whose
\* refresh_token is None: the fast path of lines 156-165 is not taken.

\* log_in, line 168: load_tokens raises on a malformed file; nothing catches it
LogInCacheUnreadable ==
  /\ spc = "init"
  /\ load_tokens(cache).raised
  /\ spc' = "dead"
  /\ UNCHANGED <<now, access_token, refresh_token, token_expires_at, cache, issued,
                 srv_expiry, latest_rt, last_refresh, last_call, login_runs, runs,
                 log_in_run>>
  /\ UNCHANGED notSession

\* log_in, lines 168-179: the cached refresh token is refreshed and the profile
\* request succeeds
LogInCached ==
  /\ spc = "init"
  /\ ~load_tokens(cache).raised
  /\ load_tokens(cache).found
  /\ load_tokens(cache).tokens.refresh_token # 0
  /\ issued < MaxTokens
  /\ LET rt == load_tokens(cache).tokens.refresh_token
         st0 == [Sess EXCEPT !.refresh_token = rt]
     IN \E a \in RefreshAnswers(issued + 1) :
          /\ a.ok
          /\ LET st == Refreshed(st0, a.tok, now) IN
             /\ access_token' = st.access_token
             /\ refresh_token' = st.refresh_token
             /\ token_expires_at' = st.token_expires_at
          /\ srv_expiry' = now + a.life
          /\ latest_rt' = IF a.tok.refresh_token # 0 THEN a.tok.refresh_token ELSE rt
          /\ last_refresh' = [sent |-> rt, latest |-> rt, prev |-> last_refresh.sent, ok |-> TRUE]
  /\ issued' = issued + 1
  /\ spc' = "ready"
  /\ log_in_run' = [cached |-> TRUE, refresh |-> "ok", profile |-> "ok",
                    login |-> "none", attempts |-> 0]
  /\ UNCHANGED <<now, cache, last_call, login_runs, runs>>
  /\ UNCHANGED notSession

\* log_in, lines 168-198: no usable cached refresh token, or its refresh or the
\* profile request failed; then the interactive login
LogInInteractive ==
  /\ spc = "init"
  /\ ~load_tokens(cache).raised
  /\ LET cached == load_tokens(cache)
         tried == cached.found /\ cached.tokens.refresh_token # 0
         rt == cached.tokens.refresh_token
         st0 == IF tried THEN [Sess EXCEPT !.refresh_token = rt] ELSE Sess
         n1 == IF tried THEN issued + 1 ELSE issued
     IN /\ n1 < MaxTokens
        /\ \E a \in RefreshAnswers(n1), me1 \in BOOLEAN,
              lg \in LoginResults(n1 + 1), me2 \in BOOLEAN :
             \* the cached path was not taken, or it failed
             /\ tried => (~a.ok \/ ~me1)
             /\ ~tried => (~a.ok /\ ~me1)
             /\ ~lg.ok => ~me2
             /\ LET st1 == IF tried /\ a.ok THEN Refreshed(st0, a.tok, now) ELSE st0
                    st2 == IF lg.ok THEN LoggedIn(st1, lg.tok, now) ELSE st1
                IN
                /\ access_token' = st2.access_token
                /\ refresh_token' = st2.refresh_token
                /\ token_expires_at' = st2.token_expires_at
                /\ srv_expiry' = IF lg.ok THEN now + lg.life
                                 ELSE IF tried /\ a.ok THEN now + a.life ELSE srv_expiry
                /\ latest_rt' = IF lg.ok THEN lg.tok.refresh_token
                                ELSE IF tried /\ a.ok /\ a.tok.refresh_token # 0
                                     THEN a.tok.refresh_token
                                     ELSE IF tried THEN rt ELSE latest_rt
                /\ last_refresh' = IF tried
                                   THEN [sent |-> rt, latest |-> rt,
                                         prev |-> last_refresh.sent, ok |-> a.ok]
                                   ELSE last_refresh
                /\ cache' = IF lg.ok THEN save_tokens(cache, lg.tok) ELSE cache
                /\ spc' = log_in_end(lg.ok, me2)
                /\ issued' = IF lg.ok THEN n1 + 1 ELSE n1
                /\ log_in_run' = [cached |-> tried,
                                  refresh |-> IF tried THEN Outcome(a.ok) ELSE "none",
                                  profile |-> IF tried /\ a.ok THEN Outcome(me1) ELSE "none",
                                  login |-> Outcome(lg.ok), attempts |-> 1]
  /\ login_runs' = login_runs + 1
  /\ UNCHANGED <<now, last_call, runs>>
  /\ UNCHANGED notSession

\* search_appointment_filters / search_appointments: _ensure_token, then the
\* request with the bearer token, then raise_for_status and "return
\* resp.json()": the result of the call is the data, or the exception raised
ApiCall(kind) ==
  /\ spc = "ready"
  /\ LET valid == TokenValid(Sess, now)
         must == ~valid /\ refresh_token # 0
     IN \E a \in RefreshAnswers(issued + 1), status \in StatusCodes :
          /\ must => issued < MaxTokens
          /\ ~must => ~a.ok
          /\ (must /\ ~a.ok) => status = 200
          /\ LET refreshed == must /\ a.ok
                 failed == must /\ ~a.ok
                 st == IF refreshed THEN Refreshed(Sess, a.tok, now) ELSE Sess
                 exp == IF refreshed THEN now + a.life ELSE srv_expiry
             IN
             /\ access_token' = st.access_token
             /\ refresh_token' = st.refresh_token
             /\ token_expires_at' = st.token_expires_at
             /\ srv_expiry' = exp
             /\ issued' = IF must THEN issued + 1 ELSE issued
             /\ latest_rt' = IF refreshed /\ a.tok.refresh_token # 0
                             THEN a.tok.refresh_token ELSE latest_rt
             /\ last_refresh' = IF must THEN RefreshSent(refresh_token, a.ok)
                                ELSE last_refresh
             /\ last_call' = [kind |-> kind, remaining |-> srv_expiry - now,
                              valid |-> valid, had_rt |-> refresh_token # 0,
                              refresh |-> IF refreshed THEN "ok"
                                          ELSE IF failed THEN "failed" ELSE "none",
                              sent |-> ~failed,
                              status |-> IF failed THEN 0 ELSE status,
                              result |-> IF failed \/ raise_for_status(status)
                                         THEN "error" ELSE "data"]
             /\ spc' = IF last_call'.result = "error" THEN "dead" ELSE "ready"
  /\ UNCHANGED <<now, cache, login_runs, runs, log_in_run>>
  /\ UNCHANGED notSession

Filters == ApiCall("filters")
Slots == ApiCall("slots")

\* a second passes; last_call describes a call made at the present instant only
Tick ==
  /\ spc = "ready"
  /\ now < MaxTime
  /\ now' = now + 1
  /\ last_call' = NoCall
  /\ UNCHANGED <<spc, access_token, refresh_token, token_expires_at, cache, issued,
                 srv_expiry, latest_rt, last_refresh, login_runs, runs, log_in_run>>
  /\ UNCHANGED notSession

\* the program is started again: a new MedicoverSession, the same cache file
Restart ==
  /\ spc \in {"ready", "dead"}
  /\ runs < MaxRuns
  /\ runs' = runs + 1
  /\ spc' = "init"
  /\ access_token' = 0
  /\ refresh_token' = 0
  /\ token_expires_at' = NoExpiry
  /\ srv_expiry' = 0
  /\ latest_rt' = 0
  /\ last_refresh' = NoRefresh
  /\ last_call' = NoCall
  /\ log_in_run' = NoLogIn
  /\ UNCHANGED <<now, cache, issued, login_runs>>
  /\ UNCHANGED notSession

SessionNext ==
  \/ LogInCacheUnreadable
  \/ LogInCached
  \/ LogInInteractive
  \/ Filters
  \/ Slots
  \/ Tick
  \/ Restart

\* the session before log_in, untouched
SessionIdle ==
  /\ spc = "init"
  /\ now = 0
  /\ access_token = 0
  /\ refresh_token = 0
  /\ token_expires_at = NoExpiry
  /\ cache = FileAbsent
  /\ issued = 0
  /\ srv_expiry = 0
  /\ latest_rt = 0
  /\ last_refresh = NoRefresh
  /\ last_call = NoCall
  /\ login_runs = 0
  /\ runs = 1
  /\ log_in_run = NoLogIn

\* main before its loop, untouched
HuntIdle ==
  /\ hpc = "search"
  /\ once = FALSE
  /\ days = 1
  /\ doctor_id = PyNone
  /\ date_idx = 0
  /\ cycle = 1
  /\ seen = {}
  /\ new_items = <<>>
  /\ out = <<>>
  /\ dups = 0
  /\ interval = DefaultInterval
  /\ last_wait = 0
  /\ calls = <<>>
  /\ prev_calls = <<>>
  /\ wanted = {}
  /\ dropped = FALSE
  /\ alias_seen = FALSE
  /\ merged = FALSE
  /\ page_size = DefaultPageSize
  /\ held = {}
  /\ search_failed = FALSE

(***************************************************************************)
(* save_tokens and load_tokens on the file system, step by step.  The      *)
(* process may die between any two steps; the files stay as they are.      *)
(***************************************************************************)
\* a file that holds only the first part of json.dumps(tokens), maybe nothing
FilePartial(b) == [kind |-> "partial", bundle |-> b]

\* the token bundles save_tokens is called with
Bundles ==
  UNION {{Bundle(id, r, IF d THEN l ELSE 0) : r \in {0, id}, d \in BOOLEAN} :
           <<id, l>> \in (1..MaxTokens) \X Lifetimes}

\* the two files: path is tokens.json, tmp is tokens.tmp
Files == [path |-> cache, tmp |-> tmp]

\* write_text on the cache file itself
open_in_place(fs, b) == [fs EXCEPT !.path = FilePartial(b)]

\* line 337, write_text opens tmp for writing: tmp is truncated
open_tmp(fs, b) == [fs EXCEPT !.tmp = FilePartial(b)]

\* line 337, write_text wrote and closed: tmp holds all of json.dumps(tokens)
close_tmp(fs, b) == [fs EXCEPT !.tmp = FileJson(b)]

\* line 338, tmp.replace(path): path gets the content of tmp, tmp is gone
replace_tmp(fs) == [path |-> fs.tmp, tmp |-> FileAbsent]

NotLoaded == [raised |-> FALSE, found |-> FALSE, tokens |-> NoBundle]

CacheIdle ==
  /\ wpc = "idle"
  /\ wtokens = NoBundle
  /\ tmp = FileAbsent
  /\ loaded = NotLoaded

SaveOpen ==
  /\ wpc = "idle"
  /\ \E b \in Bundles :
       /\ wtokens' = b
       /\ cache' = open_tmp(Files, b).path
       /\ tmp' = open_tmp(Files, b).tmp
  /\ wpc' = "opened"
  /\ UNCHANGED loaded
  /\ UNCHANGED notCache

\* part of the text reaches the disk
SaveWritePart ==
  /\ wpc = "opened"
  /\ wpc' = "partly"
  /\ UNCHANGED <<cache, wtokens, tmp, loaded>>
  /\ UNCHANGED notCache

SaveWriteAll ==
  /\ wpc \in {"opened", "partly"}
  /\ cache' = close_tmp(Files, wtokens).path
  /\ tmp' = close_tmp(Files, wtokens).tmp
  /\ wpc' = "written"
  /\ UNCHANGED <<wtokens, loaded>>
  /\ UNCHANGED notCache

SaveReplace ==
  /\ wpc = "written"
  /\ cache' = replace_tmp(Files).path
  /\ tmp' = replace_tmp(Files).tmp
  /\ wpc' = "idle"
  /\ UNCHANGED <<wtokens, loaded>>
  /\ UNCHANGED notCache

\* the process dies inside save_tokens
Crash ==
  /\ wpc \in {"opened", "partly", "written"}
  /\ wpc' = "crashed"
  /\ UNCHANGED <<cache, wtokens, tmp, loaded>>
  /\ UNCHANGED notCache

\* the program is started again and log_in calls load_tokens
StartAndLoad ==
  /\ wpc = "crashed"
  /\ loaded' = load_tokens(cache)
  /\ wpc' = "idle"
  /\ UNCHANGED <<cache, wtokens, tmp>>
  /\ UNCHANGED notCache

CacheNext ==
  \/ SaveOpen
  \/ SaveWritePart
  \/ SaveWriteAll
  \/ SaveReplace
  \/ Crash
  \/ StartAndLoad

(***************************************************************************)
(* login_and_capture_tokens.  The handler on_response runs whenever the    *)
(* main flow is inside a call of the page (Playwright dispatches events    *)
(* there), so it interleaves with the steps below.                         *)
(***************************************************************************)
MaxPolls == 2

NoTokens == [src |-> "none", bundle |-> NoBundle]
Captured(src, b) == [src |-> src, bundle |-> b]

\* "if tokens" / "if not tokens"
HasTokens(tk) == tk.src # "none"

\* responses the page may receive: url contains /connect/token or not, the
\* request method, the content type, and the JSON body's tokens
PageResponses ==
  [token_url : BOOLEAN, post : BOOLEAN, json : BOOLEAN,
   access_token : 0..2, refresh_token : 0..2, expires_in : {0, MaxLife}]

\* handlers that may wait in resp.json() at the same time
MaxPending == 2

\* on_response, lines 48-53: whether the handler goes on to call resp.json()
on_response_check(tk, resp) ==
  ~HasTokens(tk) /\ resp.token_url /\ resp.post /\ resp.json

\* the body resp.json() gives the handler
json_body(resp) == Bundle(resp.access_token, resp.refresh_token, resp.expires_in)

\* on_response, lines 55-63: the dict tokens after resp.json() returned data
on_response_assign(tk, data) ==
  IF data.access_token # 0 /\ data.refresh_token # 0
  THEN Captured("network", data)
  ELSE tk

\* what page.evaluate returns from localStorage / sessionStorage, reduced to
\* the first entry the loop of lines 251-281 accepts: access_token 0 is none
StorageFinds ==
  [access_token : 0..2, refresh_token : 0..2, expires_in : {0, MaxLife}]

\* a storage loop that takes an entry without looking for its access token
storage_pick_any(tk, found) ==
  Captured("storage", Bundle(found.access_token, found.refresh_token, found.expires_in))

\* lines 251-281: tokens after the storage loop
storage_pick(tk, found) ==
  IF found.access_token # 0
  THEN Captured("storage",
                Bundle(found.access_token, found.refresh_token, found.expires_in))
  ELSE tk

\* lines 304-312: tokens after the header sniff; bearer 0 is no header seen
sniff_pick(tk, bearer) ==
  IF bearer # 0 THEN Captured("sniff", Bundle(bearer, 0, 0)) ELSE tk

LoginInit ==
  /\ lpc = "start"
  /\ tokens = NoTokens
  /\ submits = 0
  /\ polls = 0
  /\ captures = 0
  /\ pending = {}
  /\ net_captures = 0
  /\ filled = {}
  /\ submitted = <<>>
  /\ form = "unknown"
  /\ error = "none"

LoginIdle == LoginInit

\* lines 70-83: goto the portal, wait for the redirect to the login host
Navigate ==
  /\ lpc = "start"
  /\ \E reached \in BOOLEAN :
       /\ lpc' = IF reached THEN "consent" ELSE "failed"
       /\ error' = IF reached THEN "none" ELSE "no_redirect"
  /\ UNCHANGED <<tokens, submits, polls, captures, pending, net_captures,
                 filled, submitted, form>>
  /\ UNCHANGED notLogin

\* what the consent overlay does: not there, clicked away, removed by the
\* script, or still there after both
Overlays == {"absent", "clicked", "removed", "stuck"}

\* a login that needs the overlay gone
consent_stage_strict(overlay) ==
  IF overlay \in {"clicked", "removed"} THEN "fill" ELSE "failed"

\* lines 89-115: every click and the removal are inside try / except, and
\* nothing is tested after them
consent_stage(overlay) == "fill"

\* lines 89-115: the consent overlay, clicked away, removed or left
DismissConsent ==
  /\ lpc = "consent"
  /\ \E overlay \in Overlays : lpc' = consent_stage(overlay)
  /\ UNCHANGED <<tokens, submits, polls, captures, pending, net_captures,
                 filled, submitted, form, error>>
  /\ UNCHANGED notLogin

\* a submit that does nothing
find_submit_nothing(log, fields) == log

\* _find_submit, lines 147-156: the first visible submit button is clicked, or
\* Enter is pressed; log is the submits made so far
find_submit(log, fields) == Append(log, fields)

\* lines 159-176: fill the username (RuntimeError without the field), the
\* password if its field is visible, and submit
FillCredentials ==
  /\ lpc = "fill"
  /\ \E ok_user \in BOOLEAN, ok_pass \in BOOLEAN :
       /\ lpc' = IF ~ok_user THEN "failed" ELSE IF ok_pass THEN "waitA" ELSE "wait_pass"
       /\ error' = IF ~ok_user THEN "no_username" ELSE "none"
       /\ submits' = IF ok_user THEN submits + 1 ELSE submits
       /\ filled' = IF ~ok_user THEN filled
                    ELSE IF ok_pass THEN {"username", "password"} ELSE {"username"}
       /\ form' = IF ~ok_user THEN form ELSE IF ok_pass THEN "one_step" ELSE "two_step"
       /\ submitted' = IF ok_user THEN find_submit(submitted, filled') ELSE submitted
  /\ UNCHANGED <<tokens, polls, captures, pending, net_captures>>
  /\ UNCHANGED notLogin

\* a login that goes on to the token capture without the password
password_stage_lenient(appeared, ok_pass) == "waitA"

\* lines 179-197: RuntimeError when the password field does not appear within
\* the timeout or cannot be filled
password_stage(appeared, ok_pass) == IF appeared /\ ok_pass THEN "waitA" ELSE "failed"

\* lines 179-197: the password field of the two-step form
FillPassword ==
  /\ lpc = "wait_pass"
  /\ \E appeared \in BOOLEAN, ok_pass \in BOOLEAN :
       /\ lpc' = password_stage(appeared, ok_pass)
       /\ error' = IF ~appeared THEN "no_password"
                   ELSE IF ~ok_pass THEN "password_not_filled" ELSE "none"
       /\ submits' = IF appeared /\ ok_pass THEN submits + 1 ELSE submits
       /\ filled' = IF appeared /\ ok_pass THEN filled \cup {"password"} ELSE filled
       /\ submitted' = IF appeared /\ ok_pass THEN find_submit(submitted, filled')
                       ELSE submitted
  /\ UNCHANGED <<tokens, polls, captures, pending, net_captures, form>>
  /\ UNCHANGED notLogin

\* a response arrives while the main flow is inside a call of the page: the
\* handler runs lines 48-54 and, for a JSON response to a POST on the token
\* endpoint, waits in resp.json(); while it waits the main flow and other
\* handlers go on
OnResponse ==
  /\ lpc \in {"waitA", "evalB", "gotoC"}
  /\ \E resp \in PageResponses :
       IF on_response_check(tokens, resp)
       THEN /\ Cardinality(pending) < MaxPending
            /\ pending' = pending \cup {json_body(resp)}
       ELSE pending' = pending
  /\ UNCHANGED <<lpc, tokens, submits, polls, captures, net_captures,
                 filled, submitted, form, error>>
  /\ UNCHANGED notLogin

\* resp.json() of a waiting handler returns (or raises: line 64), and the
\* handler runs lines 55-63
OnResponseJson ==
  /\ lpc \in {"waitA", "evalB", "gotoC"}
  /\ \E data \in pending, raised \in BOOLEAN :
       /\ pending' = pending \ {data}
       /\ tokens' = IF raised THEN tokens ELSE on_response_assign(tokens, data)
       /\ captures' = IF tokens' # tokens THEN captures + 1 ELSE captures
       /\ net_captures' = IF tokens' # tokens THEN net_captures + 1 ELSE net_captures
  /\ UNCHANGED <<lpc, submits, polls, filled, submitted, form, error>>
  /\ UNCHANGED notLogin

\* lines 206-212: one turn of the wait loop; on leaving it, "if not tokens"
\* enters the storage scrape, and line 287 is passed with tokens set
WaitLoop ==
  /\ lpc = "waitA"
  /\ \/ /\ HasTokens(tokens)
        /\ lpc' = "close"
        /\ UNCHANGED polls
     \/ /\ ~HasTokens(tokens)
        /\ polls < MaxPolls
        /\ polls' = polls + 1
        /\ UNCHANGED lpc
     \/ /\ ~HasTokens(tokens)
        /\ lpc' = "evalB"
        /\ UNCHANGED polls
  /\ UNCHANGED <<tokens, submits, captures, pending, net_captures,
                 filled, submitted, form, error>>
  /\ UNCHANGED notLogin

\* lines 214-287: page.evaluate returned (or raised: nothing found); the
\* storage loop; then "if not tokens" enters the header sniff
StorageScrape ==
  /\ lpc = "evalB"
  /\ \E found \in StorageFinds :
       /\ tokens' = storage_pick(tokens, found)
       /\ captures' = IF found.access_token # 0 THEN captures + 1 ELSE captures
  /\ lpc' = IF HasTokens(tokens') THEN "close" ELSE "gotoC"
  /\ UNCHANGED <<submits, polls, pending, net_captures, filled, submitted, form, error>>
  /\ UNCHANGED notLogin

\* lines 301-315: the navigation ended (or raised: no header seen)
HeaderSniff ==
  /\ lpc = "gotoC"
  /\ \E bearer \in 0..2 :
       /\ tokens' = sniff_pick(tokens, bearer)
       /\ captures' = IF bearer # 0 THEN captures + 1 ELSE captures
  /\ lpc' = "close"
  /\ UNCHANGED <<submits, polls, pending, net_captures, filled, submitted, form, error>>
  /\ UNCHANGED notLogin

\* lines 326-331: close the browser (the handlers still waiting end with the
\* exception of line 64), raise without tokens, else return them
CloseAndReturn ==
  /\ lpc = "close"
  /\ lpc' = IF HasTokens(tokens) THEN "returned" ELSE "failed"
  /\ error' = IF HasTokens(tokens) THEN "none" ELSE "no_tokens"
  /\ pending' = {}
  /\ UNCHANGED <<tokens, submits, polls, captures, net_captures, filled, submitted, form>>
  /\ UNCHANGED notLogin

\* log_in, lines 184-190: the tokens login_and_capture_tokens returned are
\* written to the cache file
LogInSave ==
  /\ lpc = "returned"
  /\ lpc' = "saved"
  /\ cache' = save_tokens(cache, tokens.bundle)
  /\ UNCHANGED <<tokens, submits, polls, captures, pending, net_captures,
                 filled, submitted, form, error>>
  /\ UNCHANGED <<hvars, cvars, rvars, spc, now, access_token, refresh_token,
                 token_expires_at, issued, srv_expiry, latest_rt, last_refresh, last_call,
                 login_runs, runs, log_in_run>>

LoginNext ==
  \/ Navigate
  \/ DismissConsent
  \/ FillCredentials
  \/ FillPassword
  \/ OnResponse
  \/ OnResponseJson
  \/ WaitLoop
  \/ StorageScrape
  \/ HeaderSniff
  \/ CloseAndReturn
  \/ LogInSave

vars == <<hvars, svars, cvars, lvars, rvars>>

Init == HuntInit /\ SetupDone /\ SessionIdle /\ CacheIdle /\ LoginIdle
Next == HuntNext
Spec == Init /\ [][Next]_vars

\* the polling loop while every call returns successfully; main runs on
\* whenever it can (it only waits inside its calls and in time.sleep)
NextCalm == CalmNext
SpecCalm == Init /\ [][NextCalm]_vars /\ WF_vars(NextCalm)

InitSession == SessionInit /\ HuntIdle /\ SetupDone /\ CacheIdle /\ LoginIdle
NextSession == SessionNext
SpecSession == InitSession /\ [][NextSession]_vars

InitCache == SessionInit /\ HuntIdle /\ SetupDone /\ CacheIdle /\ LoginIdle
NextCache == CacheNext
SpecCache == InitCache /\ [][NextCache]_vars

InitLogin == LoginInit /\ HuntIdle /\ SetupDone /\ SessionIdle /\ CacheIdle
NextLogin == LoginNext
SpecLogin == InitLogin /\ [][NextLogin]_vars

InitSetup == SetupInit /\ SessionIdle /\ CacheIdle /\ LoginIdle
NextSetup == SetupNext
SpecSetup == InitSetup /\ [][NextSetup]_vars

(***************************************************************************)
(* Claims about the polling loop.                                          *)
(***************************************************************************)
ReportedKeys == {slot_key(Flatten(out)[i]) : i \in 1..Len(Flatten(out))}

\* C1: each distinct fingerprint appears in the reported batches at most once
\* (never twice in a batch, never in two batches), only fingerprints of seen
\* are reported, and when a cycle has been reported (the run sleeps or is done)
\* every fingerprint of seen appears exactly once.
C1_ReportedOnce ==
  LET flat == Flatten(out) IN
  /\ \A i, j \in 1..Len(flat) : i # j => slot_key(flat[i]) # slot_key(flat[j])
  /\ ReportedKeys \subseteq seen
  /\ hpc \in {"sleep", "done"} => Cardinality(seen) = Len(flat)

\* two batches were printed and slots came back that were already in seen
C1_Witness ==
  /\ Len(out) >= 2
  /\ dups >= 2
  /\ cycle >= 2

\* C2: when the run sleeps or has ended (done or aborted), every fingerprint
\* inserted into seen has been reported.
C2_NoneMissed ==
  hpc \in {"sleep", "done", "failed"} => seen \subseteq ReportedKeys

\* the same where the run was not aborted: holds
C2_NoneMissedUnlessAborted ==
  hpc \in {"sleep", "done"} => seen \subseteq ReportedKeys

\* C14: whatever interval is configured (1, 0 and negative values included),
\* the wait between two cycles is the larger of 5 seconds and the interval,
\* so never less than 5 seconds.
C14_MinimumInterval ==
  cycle > 1 =>
    /\ last_wait >= MinWait
    /\ last_wait >= interval
    /\ last_wait \in {MinWait, interval}

\* a second cycle runs with an interval of 1 second or less configured
C14_Witness ==
  /\ cycle > 1
  /\ interval <= 1
  /\ last_wait = MinWait

\* the records kept so far: printed, or waiting in new_items to be printed
Kept ==
  IF hpc \in {"search", "report", "failed"} THEN Flatten(out) \o new_items
  ELSE Flatten(out)

\* C15: with a day count N >= 1 the searches of a cycle are called with the
\* dates D, D+1, ... in this order, a cycle that came to its report has made
\* exactly N of them, and the cycle before searched the same N dates.
C15_DatesSearched ==
  days >= 1 =>
    /\ Len(calls) <= days
    /\ \A i \in 1..Len(calls) : calls[i] = StartDate + (i - 1)
    /\ hpc \in {"report", "sleep", "done"} => Len(calls) = days
    /\ cycle > 1 => prev_calls = [i \in 1..days |-> StartDate + (i - 1)]

\* the second cycle of a run over two days has made its two searches
C15_Witness ==
  /\ days = 2
  /\ cycle = 2
  /\ hpc = "report"
  /\ calls = <<StartDate, StartDate + 1>>

\* C16: with a doctor id set, after every step the fingerprints in SeenSet are
\* exactly those of the returned records whose doctor id is the configured
\* number (as an integer or as its decimal string), every kept record is such
\* a record, and the search that drops a record goes on with the cycle.
C16_DoctorFilter ==
  [][doctor_id # PyNone =>
       /\ seen' = wanted'
       /\ \A i \in 1..Len(Kept') : SameNumber(Kept'[i].doctor.id, doctor_id.i)
       /\ (dropped' /\ ~dropped) => hpc' \in {"search", "report"}]_vars

\* records were dropped, a record with the id as a string was kept, and the
\* run went on to a second cycle
C16_Witness ==
  /\ doctor_id = PyInt(9)
  /\ dropped
  /\ cycle = 2
  /\ \E i \in 1..Len(Kept) : Kept[i] = ItemC

\* the fingerprinted fields of two records are equal
SameSlot(a, b) ==
  /\ a.appointmentDate = b.appointmentDate
  /\ a.clinic.id = b.clinic.id
  /\ a.doctor.id = b.doctor.id
  /\ a.specialty.id = b.specialty.id

\* C20: records with the same appointment datetime and the same clinic, doctor
\* and specialty ids have the same fingerprint whatever their display names
\* and phone-consultation flag, and only one of them is kept.
C20_NamesIgnored ==
  /\ \A a, b \in Items : SameSlot(a, b) => slot_key(a) = slot_key(b)
  /\ \A i, j \in 1..Len(Kept) : i # j => ~SameSlot(Kept[i], Kept[j])

\* a kept slot came back under other display names and the cycle was reported
C20_Witness ==
  /\ alias_seen
  /\ hpc \in {"sleep", "done"}
  /\ \E i \in 1..Len(Kept) : Kept[i] \in {ItemA, ItemA2}

\* records with the separator inside a component: the date "D1T10|1" without
\* a clinic id, and the date "D1T10" with the clinic 1 and the doctor id "|9"
ItemP == Slot(PyStr("D1T10|1"), Sub(PyNone, ""), Sub(PyInt(9), "Dr X"), Sub(PyInt(30), "Uro"))
ItemQ == Slot(PyStr("D1T10"), Sub(PyInt(1), "A"), Sub(PyStr("|9"), "Dr X"), Sub(PyInt(30), "Uro"))

SeparatorItems == {ItemP, ItemQ}

\* C21: records that differ in one of appointment datetime, clinic id, doctor
\* id and specialty id (an id of 0 against a missing id, and components with
\* the separator in them, included) have different fingerprints, and the
\* dedupe never takes a record for a kept record of another slot.
C21_Injective ==
  /\ \A a, b \in Items \cup SeparatorItems : ~SameSlot(a, b) => slot_key(a) # slot_key(b)
  /\ ~merged

\* C25: after every search the fingerprint of every record the portal holds for
\* the searched date (and the configured doctor) is in SeenSet, so the record
\* was collected and considered for reporting, also when the portal holds more
\* records for the date than one page of the configured size.
C25_AllPagesCollected ==
  held \subseteq seen

\* the same for the runs with a page size no list of the portal exceeds: holds
C25_CollectedWithinOnePage ==
  search_page_size(page_size) > MaxItems => held \subseteq seen

\* C23: a search that raised is not run again and not passed over: the run has
\* ended with the exception (not with success), no step follows the failure
\* (no further search, no sleep), and the failed cycle has emitted no report.
C23_FailureEndsRun ==
  /\ [](search_failed => hpc = "failed" /\ Len(out) < cycle /\ Len(calls) <= NDates)
  /\ [][~search_failed /\ (search_failed' => out' = out /\ seen' = seen)]_vars

\* the second search of the second cycle of a run has raised, after the first
\* cycle was reported
C23_Witness ==
  /\ search_failed
  /\ hpc = "failed"
  /\ cycle = 2
  /\ Len(calls) = 2
  /\ Len(out) = 1

\* C24: while every call returns, a single run comes to "done", and it is
\* "done" after exactly one complete cycle (every date searched, the new
\* records printed) without a sleep; a run that is not a single run is never
\* "done": each of its cycles goes on to the sleep.
C24_RunTermination ==
  /\ [](hpc = "done" =>
          /\ once
          /\ cycle = 1
          /\ last_wait = 0
          /\ Len(calls) = NDates
          /\ out = (IF new_items # <<>> THEN <<new_items>> ELSE <<>>))
  /\ [](~once => hpc # "done")
  /\ [][~once /\ hpc = "report" => hpc' = "sleep"]_vars
  /\ (once ~> hpc = "done")

\* a single run over two days is done and has printed a batch
C24_Witness ==
  /\ once
  /\ hpc = "done"
  /\ days = 2
  /\ Len(out) = 1

\* C27: no step of the loop removes a fingerprint from seen: seen before the
\* step is a subset of seen after it, also over the sleep between two cycles.
C27_SeenMonotone ==
  [][seen \subseteq seen']_vars

\* seen, filled in the first cycle, has grown in the second
C27_Witness ==
  /\ cycle = 2
  /\ out # <<>>
  /\ new_items # <<>>
  /\ Cardinality(seen) >= 2

\* C28: a report is emitted only by the step after the last search of the
\* cycle (every date searched), never twice in a cycle, never when the cycle
\* found no new record; the sleep and the end of the run come only from that
\* step, and the next search only from the start or the sleep.
C28_PhaseOrder ==
  /\ [](Len(out) <= (IF hpc \in {"sleep", "done"} THEN cycle ELSE cycle - 1))
  /\ [][/\ out' # out => /\ hpc = "report"
                         /\ Len(calls) = NDates
                         /\ new_items # <<>>
                         /\ out' = Append(out, new_items)
        /\ hpc = "report" /\ new_items = <<>> => out' = out
        /\ hpc' # hpc /\ hpc' \in {"sleep", "done"} => hpc = "report"
        /\ hpc' = "report" => hpc = "search" /\ Len(calls') = NDates
        /\ hpc = "sleep" => hpc' = "search" /\ cycle' = cycle + 1 /\ calls' = <<>>
        /\ hpc = "done" => FALSE]_vars

\* the first cycle was reported, the second found nothing new and emitted
\* nothing
C28_Witness ==
  /\ cycle = 2
  /\ hpc = "sleep"
  /\ new_items = <<>>
  /\ Len(out) = 1

(***************************************************************************)
(* Claims about the name lookups of main.                                  *)
(***************************************************************************)
\* the name after case folding and whitespace normalisation, as a table
Canonical(str) ==
  CASE str = <<"A", " ", " ", "b", " ">> -> <<"a", " ", "b">>
    [] str = <<" ", "A", " ", "B">> -> <<"a", " ", "b">>
    [] OTHER -> str

ExactAt(r, i) == Canonical(r.entries[i].value) = Canonical(r.name)
PartAt(r, i) == Contains(Canonical(r.entries[i].value), Canonical(r.name))

\* the doctor filter the supplied id asks for
SuppliedFilter(it) == SameNumber(it.doctor.id, args.doctor_id.i)

\* C17: when a numeric --doctor-id is supplied, whatever its value and with or
\* without --doctor, the doctors list is not fetched and the loop filters on
\* the supplied id.
C17_DoctorIdVerbatim ==
  (args.doctor_id # PyNone /\ hpc \in {"search", "exit", "failed"} /\ region_id # 0) =>
    /\ doctor_lookups = 0
    /\ hpc = "search"
    /\ doctor_id = args.doctor_id
    /\ \A it \in Items : PassesDoctorFilter(doctor_id, it) <=> SuppliedFilter(it)

\* the same for the ids that are not 0: holds
C17_NonZeroIdVerbatim ==
  (args.doctor_id \notin {PyNone, PyInt(0)} /\ hpc \in {"search", "exit", "failed"}
     /\ region_id # 0) =>
    /\ doctor_lookups = 0
    /\ hpc = "search"
    /\ doctor_id = args.doctor_id
    /\ \A it \in Items : PassesDoctorFilter(doctor_id, it) <=> SuppliedFilter(it)

\* C18: every lookup (region, specialty, doctor) takes the first entry in
\* listed order whose name equals the name looked for after case folding and
\* whitespace normalisation, also behind entries that only contain it; without
\* such an entry it takes the first entry whose normalised name contains the
\* normalised name.
C18_ExactBeforePartial ==
  \A k \in 1..Len(resolutions) :
    LET r == resolutions[k]
        places == 1..Len(r.entries)
        exact == {i \in places : ExactAt(r, i)}
        part == {i \in places : PartAt(r, i)}
    IN /\ exact # {} => (r.target \in exact /\ \A i \in exact : r.target <= i)
       /\ (exact = {} /\ part # {}) => (r.target \in part /\ \A i \in part : r.target <= i)

\* a doctor was taken by its exact name behind an entry that contains the name
C18_Witness ==
  /\ Len(resolutions) = 1
  /\ resolutions[1].kind = "doctor"
  /\ resolutions[1].target = 2
  /\ PartAt(resolutions[1], 1)
  /\ ~ExactAt(resolutions[1], 1)
  /\ resolutions[1].entries[2].value # resolutions[1].name
  /\ hpc = "search"
  /\ doctor_id = PyInt(2)

\* C19: a lookup in an empty list finds nothing, whatever the name, and after
\* a lookup that found nothing the process has ended without a slots search.
C19_UnresolvedExits ==
  \A k \in 1..Len(resolutions) :
    /\ resolutions[k].entries = <<>> => resolutions[k].target = 0
    /\ resolutions[k].target = 0 => (hpc = "exit" /\ calls = <<>>)

\* the doctors list came back empty after region and specialty were resolved
C19_Witness ==
  /\ hpc = "exit"
  /\ region_id # 0
  /\ Len(resolutions) = 1
  /\ resolutions[1].kind = "doctor"
  /\ resolutions[1].entries = <<>>

(***************************************************************************)
(* Claims about the token lifecycle.                                       *)
(***************************************************************************)
\* C3: no filters or slots request is sent with an access token whose expiry
\* minus the safety margin has already passed.
C3_NoExpiredTokenSent ==
  last_call.sent => now < srv_expiry - SafetyMargin

\* C4: a filters or slots call made when the held access token has 1 second
\* of validity left refreshes the token before the request is sent.
C4_RefreshAtOneSecond ==
  (last_call.sent /\ last_call.remaining = 1) => last_call.refresh = "ok"

\* C5: a filters or slots call that finds the token not valid, with no refresh
\* token held or with the refresh failing, runs the interactive login.
C5_LoginFallback ==
  [][(/\ spc = "ready"
      /\ last_call'.kind # "none"
      /\ ~last_call'.valid
      /\ (~last_call'.had_rt \/ last_call'.refresh = "failed"))
     => login_runs' = login_runs + 1]_vars

\* C6: every refresh request of a process carries the refresh token the process
\* received last (from the cache, the login, or the latest refresh response
\* that included one).
C6_LatestRefreshTokenUsed ==
  last_refresh.sent = last_refresh.latest

\* a refresh request that follows a rotation: it carries another token than
\* the request before it
C6_Witness ==
  /\ last_refresh.prev # 0
  /\ last_refresh.sent # 0
  /\ last_refresh.sent # last_refresh.prev

\* C7: after a successful refresh the cache file holds the refresh token now
\* held in memory.
C7_RefreshPersisted ==
  (spc = "ready" /\ last_refresh.ok) =>
    (cache.kind = "json" /\ cache.bundle.refresh_token = refresh_token)

\* C8: with the cache file missing or malformed, log_in goes on to the
\* interactive login.
C8_UnreadableCacheIsMiss ==
  [][(spc = "init" /\ cache.kind \in {"absent", "garbage"} /\ spc' # "init")
     => login_runs' = login_runs + 1]_vars

\* the same for a missing file alone: holds
C8_MissingCacheIsMiss ==
  [][(spc = "init" /\ cache.kind = "absent" /\ spc' # "init")
     => login_runs' = login_runs + 1]_vars

C31_ValidTokenKept ==
  [][(/\ last_call'.kind \in {"filters", "slots"}
      /\ access_token # 0
      /\ token_expires_at.some
      /\ now < token_expires_at.t) =>
       /\ last_call'.refresh = "none"
       /\ last_call'.sent
       /\ issued' = issued
       /\ last_refresh' = last_refresh
       /\ access_token' = access_token
       /\ refresh_token' = refresh_token
       /\ token_expires_at' = token_expires_at]_vars

\* a slots call was made with a valid token and a refresh token held, after
\* an earlier refresh, and sent no refresh request
C31_Witness ==
  /\ last_call.kind = "slots"
  /\ last_call.valid
  /\ last_call.had_rt
  /\ last_call.refresh = "none"
  /\ last_call.sent
  /\ last_refresh.ok
  /\ now < token_expires_at.t

\* C32: whenever an access token is held and an expiry is recorded, the
\* recorded expiry is the one of the held token: the time its response was
\* received plus the lifetime the portal gave it, minus the safety margin.
C32_ExpiryOfHeldToken ==
  (access_token # 0 /\ token_expires_at.some) =>
    token_expires_at.t = srv_expiry - SafetyMargin

\* the same for the filters and slots calls that write the expiry (the
\* refresh response carried expires_in): holds
C32_WrittenExpiryIsCurrent ==
  [][(/\ last_call'.kind \in {"filters", "slots"}
      /\ token_expires_at' # token_expires_at
      /\ token_expires_at'.some) =>
       token_expires_at'.t = srv_expiry' - SafetyMargin]_vars

\* C12: log_in calls the interactive login at most once; when the login fails
\* (no strategy captured a bundle) log_in fails with it, the process ends, and
\* from then on no login is tried again and no filters or slots call is made.
C12_LoginAttemptedOnce ==
  [][/\ login_runs' <= login_runs + 1
     /\ log_in_run'.attempts <= 1
     /\ log_in_run'.login = "failed" => spc' = "dead"
     /\ log_in_run.login = "failed" =>
          (login_runs' = login_runs /\ last_call' = NoCall /\ spc' # "ready")]_vars

\* the interactive login failed, after a cached refresh token had failed too
C12_Witness ==
  /\ log_in_run.login = "failed"
  /\ log_in_run.cached
  /\ spc = "dead"
  /\ runs = MaxRuns

\* C13: log_in runs the interactive login if and only if the cache holds no
\* usable refresh token or the refresh or the profile request with the cached
\* refresh token failed.
C13_PathSelection ==
  [][(spc = "init" /\ spc' # "init") =>
       LET usable == cache.kind = "json" /\ cache.bundle.refresh_token # 0
           cached_ok == /\ usable
                        /\ log_in_run'.refresh = "ok"
                        /\ log_in_run'.profile = "ok"
       IN (login_runs' = login_runs + 1) <=> ~cached_ok]_vars

\* the same where the cache file is missing or holds JSON: holds
C13_PathSelectionReadableCache ==
  [][(spc = "init" /\ spc' # "init" /\ cache.kind # "garbage") =>
       LET usable == cache.kind = "json" /\ cache.bundle.refresh_token # 0
           cached_ok == /\ usable
                        /\ log_in_run'.refresh = "ok"
                        /\ log_in_run'.profile = "ok"
       IN (login_runs' = login_runs + 1) <=> ~cached_ok]_vars

(***************************************************************************)
(* Claims about the cache file.                                            *)
(***************************************************************************)
\* C9: at every step of save_tokens, a crash included, the cache file keeps
\* its previous content or becomes the complete new bundle; it never holds a
\* partial one.
C9_SaveAtomic ==
  [][cache' = cache \/ cache' = FileJson(wtokens)]_vars

\* the process died with tokens.tmp half written, over an older cache file
C9_Witness ==
  /\ wpc = "crashed"
  /\ tmp.kind = "partial"
  /\ cache.kind = "json"
  /\ cache.bundle # wtokens

(***************************************************************************)
(* Claims about the interactive login.                                     *)
(***************************************************************************)
\* C10: once a strategy has captured a bundle, the bundle is never replaced
\* and no later strategy captures.
C10_FirstSuccessWins ==
  [][HasTokens(tokens) => tokens' = tokens]_vars

\* C11: the network intercept assigns a bundle at most once per login, and
\* only from a token response that holds an access and a refresh token.
C11_NetworkCapturesOnce ==
  /\ net_captures <= 1
  /\ tokens.src = "network" =>
       (tokens.bundle.access_token # 0 /\ tokens.bundle.refresh_token # 0)

\* a handler that starts when a bundle is held reads no body: holds
C11_LateHandlersReturn ==
  [][HasTokens(tokens) => pending' \subseteq pending]_vars

\* the network intercept takes full token responses only: holds
C11_FullBundlesOnly ==
  tokens.src = "network" =>
    (tokens.bundle.access_token # 0 /\ tokens.bundle.refresh_token # 0)


\* C26: the bundle in the cache file, once log_in has written it, is the one
\* the login returned, its access_token is not empty, and its refresh_token
\* is empty only if the storage scrape or the header sniff captured it.
C26_CachedBundles ==
  cache.kind = "json" =>
    /\ lpc = "saved"
    /\ cache.bundle = tokens.bundle
    /\ cache.bundle.access_token # 0
    /\ cache.bundle.refresh_token = 0 => tokens.src \in {"storage", "sniff"}
    /\ tokens.src = "network" => cache.bundle.refresh_token # 0

\* a bundle of the header sniff, without refresh token, is in the cache file
C26_Witness ==
  /\ cache.kind = "json"
  /\ tokens.src = "sniff"
  /\ cache.bundle.refresh_token = 0
  /\ cache.bundle.access_token # 0

\* the exceptions of the stages before the token capture
StageErrors == {"no_redirect", "no_username", "no_password", "password_not_filled"}

CaptureStages == {"waitA", "evalB", "gotoC", "close", "returned", "saved"}

\* C30: a form with both fields is submitted exactly once, with both fields
\* filled; a form with the username field only is submitted exactly twice,
\* first with the username alone, then with the password filled as well; the
\* token capture runs only after the last of these submits, and no submit is
\* made once it runs.
C30_SubmitCounts ==
  /\ [](form = "one_step" => submitted = <<{"username", "password"}>>)
  /\ [](form = "two_step" =>
          submitted \in {<<{"username"}>>, <<{"username"}, {"username", "password"}>>})
  /\ []((lpc \in CaptureStages \/ captures > 0 \/ pending # {}) =>
          /\ form \in {"one_step", "two_step"}
          /\ form = "two_step" => Len(submitted) = 2
          /\ submits = Len(submitted)
          /\ filled = {"username", "password"})
  /\ [][submitted' # submitted =>
          /\ lpc \in {"fill", "wait_pass"}
          /\ tokens = NoTokens
          /\ captures = 0
          /\ submitted' = Append(submitted, filled')]_vars

\* a login over the two-step form has returned a bundle of the network
\* intercept
C30_Witness ==
  /\ lpc = "saved"
  /\ form = "two_step"
  /\ Len(submitted) = 2
  /\ tokens.src = "network"

=============================================================================
